---- MODULE Spec2Model ----
(***************************************************************************)
(* size-plugin-core: outputSizes(assets, outputPath) compares the          *)
(* compressed sizes of the current build's assets with the sizes of the    *)
(* latest stored snapshot (or of the files found in the output directory), *)
(* reports the delta of every file and prepends a new snapshot to the      *)
(* history file size-plugin.json.                                           *)
(*                                                                         *)
(* File names are strings.  A JS object used as a map is a sequence of     *)
(* [k, v] entries with distinct keys, in insertion order (the order of     *)
(* Object.keys for keys that are not array indices).  A JS value that may  *)
(* be a number, null or undefined is a tagged record.                      *)
(***************************************************************************)
EXTENDS Integers, Sequences, FiniteSets, TLC

\* ------------------------------------------------------------------ bounds
MaxSize == 2
MaxTime == 2
MaxHistory == 3
MaxDelta == 1030

\* ------------------------------------------------------------- JS values
Num(n) == [t |-> "number", v |-> n]
Null == [t |-> "null", v |-> 0]
Undefined == [t |-> "undefined", v |-> 0]

\* x || 0
OrZero(x) == IF x.t = "number" THEN x.v ELSE 0

\* ------------------------------------------------------------- JS objects
Keys(m) == [i \in 1..Len(m) |-> m[i].k]

KeySet(m) == {m[i].k : i \in 1..Len(m)}

Has(m, key) == key \in KeySet(m)

\* m[key]
Get(m, key) ==
  IF Has(m, key)
    THEN m[CHOOSE i \in 1..Len(m) : m[i].k = key].v
    ELSE Undefined

\* m[key] = value
Put(m, key, value) ==
  IF Has(m, key)
    THEN [i \in 1..Len(m) |-> IF m[i].k = key THEN [k |-> key, v |-> value] ELSE m[i]]
    ELSE Append(m, [k |-> key, v |-> value])

\* values[i] of a JS array, 1-based here
At(values, i) == IF i \in 1..Len(values) THEN values[i] ELSE Undefined

\* ---------------------------------------------------------------- util.js
noop(a) == a

RECURSIVE toMapFrom(_, _, _, _)
toMapFrom(names, values, i, map) ==
  IF i > Len(names)
    THEN map
    ELSE toMapFrom(names, values, i + 1, Put(map, names[i], At(values, i)))

toMap(names, values) == toMapFrom(names, values, 1, <<>>)

\* arr.indexOf(item), 1-based; 0 when absent
IndexOf(arr, item) ==
  IF \E i \in 1..Len(arr) : arr[i] = item
    THEN CHOOSE i \in 1..Len(arr) : arr[i] = item /\ \A j \in 1..(i - 1) : arr[j] # item
    ELSE 0

\* a filter that keeps the last occurrence of an item
dedupeLast(item, index, arr) == \A j \in (index + 1)..Len(arr) : arr[j] # item

dedupe(item, index, arr) == IndexOf(arr, item) = index

\* arr.filter(dedupe)
RECURSIVE FilterDedupe(_, _)
FilterDedupe(arr, i) ==
  IF i > Len(arr) THEN <<>>
  ELSE (IF dedupe(arr[i], i, arr) THEN <<arr[i]>> ELSE <<>>) \o FilterDedupe(arr, i + 1)

RECURSIVE toFileMapFrom(_, _, _)
toFileMapFrom(files, i, result) ==
  IF i > Len(files)
    THEN result
    ELSE toFileMapFrom(files, i + 1,
           IF files[i].size # 0
             THEN Put(result, files[i].filename, Num(files[i].size))
             ELSE result)

\* a toFileMap that keeps the entries of size 0
toFileMapKeepZero(files) ==
  LET RECURSIVE all(_, _)
      all(i, result) ==
        IF i > Len(files) THEN result
        ELSE all(i + 1, Put(result, files[i].filename, Num(files[i].size)))
  IN all(1, <<>>)

toFileMap(files) == toFileMapFrom(files, 1, <<>>)

\* ------------------------------------------------------------ file names
\* Raw file names of the builds; a.1.js and a.2.js carry a content hash.
AssetNames == {"a.1.js", "a.2.js", "c.map"}

\* Files of the output directory, in the order glob returns them (sorted).
DirNames == <<"!a.1.js", "!a.2.js", "a.1.js", "a.2.js">>

\* The extension of a file name.
Ext(name) == IF name = "c.map" THEN "map" ELSE "js"

\* The name without a leading "!"; "" when it has none.
AfterBang(name) ==
  CASE name = "!a.1.js" -> "a.1.js"
    [] name = "!a.2.js" -> "a.2.js"
    [] name = "!a.js" -> "a.js"
    [] OTHER -> ""

\* A custom options.stripHash: name => name.replace(/\.\d+\./, ".")
stripDigits(name) ==
  CASE name \in {"a.1.js", "a.2.js"} -> "a.js"
    [] name \in {"!a.1.js", "!a.2.js"} -> "!a.js"
    [] OTHER -> name

\* ---------------------------------------------------- minimatch and glob
DefaultPattern == "**/*.{mjs,js,jsx,css,html}"
NegatedPattern == "!{*.1.js,a.2.js}"
HashTwoPattern == "*.2.js"

\* Whether a pattern without negation matches the name ("*" matches a
\* leading "!" as it does any character but "/" and a leading ".").
BodyMatch(body, name) ==
  CASE body = DefaultPattern -> Ext(name) \in {"mjs", "js", "jsx", "css", "html"}
    [] body = "{*.1.js,a.2.js}" -> name \in {"a.1.js", "!a.1.js", "a.2.js"}
    [] body = HashTwoPattern -> name \in {"a.2.js", "!a.2.js"}
    [] OTHER -> FALSE

\* minimatch(name, pattern, {nonegate}): a leading "!" negates the pattern
\* unless nonegate is set, and then it is an ordinary character.
minimatch(name, pattern, nonegate) ==
  IF pattern = NegatedPattern
    THEN IF nonegate
           THEN AfterBang(name) # "" /\ BodyMatch("{*.1.js,a.2.js}", AfterBang(name))
           ELSE ~BodyMatch("{*.1.js,a.2.js}", name)
    ELSE BodyMatch(pattern, name)

\* glob(pattern, {cwd, ignore}): glob matches with nonegate set and drops
\* what the ignore pattern matches; the result is sorted.
glob(pattern, cwd, ignore) ==
  SelectSeq(cwd, LAMBDA e :
    /\ minimatch(e.name, pattern, TRUE)
    /\ ~(ignore # "" /\ minimatch(e.name, ignore, FALSE)))

globNames(pattern, cwd, ignore) ==
  LET found == glob(pattern, cwd, ignore)
  IN [i \in 1..Len(found) |-> found[i].name]

\* --------------------------------------------------------------- options
\* Core(options): the defaults of the constructor. "" is an option left out.
Core(options, processEnv) ==
  [pattern |-> IF options.pattern = "" THEN DefaultPattern ELSE options.pattern,
   exclude |-> options.exclude,
   filename |-> "size-plugin.json",
   writeFile |-> options.writeFile,
   publish |-> options.publish,
   stripHash |-> IF options.stripHash = "" THEN "noop" ELSE options.stripHash,
   mode |-> IF options.mode = "" THEN processEnv.NODE_ENV ELSE options.mode,
   decorateItem |-> options.decorateItem,
   decorateAfter |-> options.decorateAfter,
   save |-> options.save]

\* opt.stripHash(filename)
stripHash(o, filename) ==
  IF o.stripHash = "noop" THEN noop(filename) ELSE stripDigits(filename)

\* getStripHashedFileSize(originSizeMap), this.options being o: exported by
\* util.js and called nowhere in Core
RECURSIVE getStripHashedFileSizeFrom(_, _, _, _)
getStripHashedFileSizeFrom(o, originSizeMap, i, acc) ==
  IF i > Len(originSizeMap)
    THEN acc
    ELSE LET stripedName == stripHash(o, originSizeMap[i].k)
         IN getStripHashedFileSizeFrom(o, originSizeMap, i + 1,
              IF OrZero(Get(acc, stripedName)) # 0
                THEN Put(acc, stripedName,
                         Num(Get(acc, stripedName).v + OrZero(originSizeMap[i].v)))
                ELSE Put(acc, stripedName, originSizeMap[i].v))

getStripHashedFileSize(o, originSizeMap) ==
  getStripHashedFileSizeFrom(o, originSizeMap, 1, <<>>)

filterFiles(o, files) ==
  SelectSeq(files, LAMBDA f :
    /\ minimatch(f, o.pattern, FALSE)
    /\ ~(o.exclude # "" /\ minimatch(f, o.exclude, FALSE)))

\* ------------------------------------------------------ size-plugin-store
publishDiff(e) == e.NODE_ENV # "test" /\ e.ci /\ e.event = "pull_request"

publishSizes(e) ==
  e.NODE_ENV # "test" /\ e.ci /\ e.event = "push" /\ e.branch = "master"

\* ------------------------------------------------------ size-plugin-core
\* oldStats.sort((a, b) => b.timestamp - a.timestamp): a stable sort
RECURSIVE InsertDesc(_, _)
InsertDesc(sorted, x) ==
  IF sorted = <<>> THEN <<x>>
  ELSE IF sorted[Len(sorted)].timestamp >= x.timestamp
         THEN Append(sorted, x)
         ELSE Append(InsertDesc(SubSeq(sorted, 1, Len(sorted) - 1), x),
                     sorted[Len(sorted)])

RECURSIVE SortDesc(_, _)
SortDesc(arr, i) ==
  IF i = 0 THEN <<>> ELSE InsertDesc(SortDesc(arr, i - 1), arr[i])

\* readFromDisk(filename): a missing or unreadable file is the history <<>>
readFromDisk(contents) == SortDesc(contents, Len(contents))

\* compressionSize.file(path).catch(() => null) / compressionSize(source)
SizeOf(entry) == IF entry.ok THEN Num(entry.size) ELSE Null

Entry(entries, name) ==
  entries[CHOOSE i \in 1..Len(entries) : entries[i].name = name]

getSizes(o, cwd) ==
  LET files == globNames(o.pattern, cwd, o.exclude)
      kept == filterFiles(o, files)
      sizes == [i \in 1..Len(kept) |-> SizeOf(Entry(cwd, kept[i]))]
  IN toMap([i \in 1..Len(files) |-> stripHash(o, files[i])], sizes)

load(o, contents, cwd) ==
  LET data == readFromDisk(contents)
  IN IF Len(data) > 0 THEN toFileMap(data[1].files) ELSE getSizes(o, cwd)

\* filterFiles(Object.keys(assets))
assetNamesOf(o, assets) ==
  filterFiles(o, [i \in 1..Len(assets) |-> assets[i].name])

\* the map of de-hashed filenames to their final size
finalSizesOf(o, assets) ==
  LET names == assetNamesOf(o, assets)
      sizes == [i \in 1..Len(names) |-> SizeOf(Entry(assets, names[i]))]
  IN toMap([i \in 1..Len(names) |-> stripHash(o, names[i])], sizes)

\* the list of unique filenames
uniqueFiles(before, after) == FilterDedupe(Keys(before) \o Keys(after), 1)

colorOf(size) ==
  IF size > 100 * 1024 THEN "red"
  ELSE IF size > 40 * 1024 THEN "yellow"
  ELSE IF size > 20 * 1024 THEN "cyan"
  ELSE "green"

Abs(n) == IF n < 0 THEN 0 - n ELSE n

\* a formatting that shows every delta but 0
deltaStyleNoLimit(delta) ==
  IF delta # 0
    THEN IF delta > 1024 THEN "red" ELSE IF delta < -10 THEN "green" ELSE "plain"
    ELSE "none"

\* how deltaText is shown: none (no text), red, green or plain
deltaStyle(delta) ==
  IF delta # 0 /\ Abs(delta) > 1
    THEN IF delta > 1024 THEN "red" ELSE IF delta < -10 THEN "green" ELSE "plain"
    ELSE "none"

\* whether sizeText is chalk.bold
sizeBold(delta) == delta # 0 /\ Abs(delta) > 1 /\ delta > 1024

\* an item whose two sizes are exchanged
itemSwapped(name, before, after) ==
  [name |-> name,
   sizeBefore |-> OrZero(Get(after, name)),
   size |-> OrZero(Get(before, name)),
   delta |-> OrZero(Get(before, name)) - OrZero(Get(after, name)),
   color |-> colorOf(OrZero(Get(before, name))),
   deltaText |-> deltaStyle(OrZero(Get(before, name)) - OrZero(Get(after, name))),
   bold |-> sizeBold(OrZero(Get(before, name)) - OrZero(Get(after, name)))]

\* one pass of the loop over the unique filenames
item(name, before, after) ==
  LET size == OrZero(Get(after, name))
      sizeBefore == OrZero(Get(before, name))
      delta == size - sizeBefore
  IN [name |-> name, sizeBefore |-> sizeBefore, size |-> size, delta |-> delta,
      color |-> colorOf(size), deltaText |-> deltaStyle(delta),
      bold |-> sizeBold(delta)]

itemsOf(before, after) ==
  LET files == uniqueFiles(before, after)
  IN [i \in 1..Len(files) |-> item(files[i], before, after)]

\* the stats object of save(files)
statsOf(files, now) ==
  [timestamp |-> now,
   files |-> [i \in 1..Len(files) |->
                [filename |-> files[i].name,
                 previous |-> files[i].sizeBefore,
                 size |-> files[i].size,
                 diff |-> files[i].size - files[i].sizeBefore]]]

\* a condition that looks at the mode alone
gateModeOnly(o, st) == o.mode = "production"

\* the condition of writeToDisk
gate(o, st) ==
  /\ o.mode = "production"
  /\ \E i \in 1..Len(st.files) : st.files[i].diff # 0

\* data.push(stats)
unshiftAsPush(data, st) == Append(data, st)

\* data.unshift(stats)
unshift(data, st) == <<st>> \o data

\* fs.writeJSON(filename, data) as a write that keeps what the file holds
writeJSONMerging(contents, d) == <<d[1]>> \o contents

\* fs.writeJSON(filename, data): the file's contents are replaced
writeJSON(contents, d) == d

\* a scan whose failures are all caught
scanNeverRejects(o, a) == FALSE

\* whether Promise.all over the filtered assets rejects
scanRejects(o, a) ==
  LET names == assetNamesOf(o, a)
  IN \E i \in 1..Len(names) : ~Entry(a, names[i]).ok

\* ------------------------------------------------------------------ state
VARIABLES
  opt,          \* the options object of Core(options)
  env,          \* process.env.NODE_ENV and ci-env's values
  file,         \* the contents of size-plugin.json (<<>>: no file)
  pc,           \* where each call of outputSizes stands
  assets,       \* the assets argument of the call
  outDir,       \* the files of outputPath
  fileBefore,   \* the contents of size-plugin.json when the call began
  sizesBefore,  \* outputSizes: sizesBefore
  finalSizes,   \* outputSizes: finalSizes
  items,        \* outputSizes: items
  stats,        \* save: stats, as <<stats>> (<<>> before save runs)
  data,         \* writeToDisk: data
  calls,        \* the hooks and store functions the call has invoked
  posted,       \* the requests the call has sent to the size store
  result,       \* the promise of the call: pending, resolved or rejected
  delta,        \* a delta given to the formatting of one item
  shown         \* the formatting of that delta

callVars == <<opt, env, file, pc, assets, outDir, fileBefore, sizesBefore,
              finalSizes, items, stats, data, calls, posted, result>>

vars == <<opt, env, file, pc, assets, outDir, fileBefore, sizesBefore,
          finalSizes, items, stats, data, calls, posted, result, delta, shown>>

Procs == {"p1", "p2"}

\* ----------------------------------------------------------------- inputs
Outcomes ==
  {[ok |-> TRUE, size |-> n] : n \in 1..MaxSize} \cup {[ok |-> FALSE, size |-> 0]}

\* The sequences without repetition over the set S, of at most n elements.
RECURSIVE Arrangements(_, _)
Arrangements(S, n) ==
  IF n = 0 THEN {<<>>}
  ELSE LET shorter == Arrangements(S, n - 1)
       IN shorter \cup
          {Append(q, x) : q \in {r \in shorter : Len(r) = n - 1}, x \in S}

Distinct(q) == \A i, j \in 1..Len(q) : i # j => q[i] # q[j]

\* Every way of giving each name of q an outcome of its size computation.
WithOutcomes(q) ==
  {[i \in 1..Len(q) |-> [name |-> q[i], ok |-> f[i].ok, size |-> f[i].size]] :
     f \in [1..Len(q) -> Outcomes]}

\* The asset maps of at most n of the names S, in any insertion order.
AssetMapsOver(S, n) ==
  UNION {WithOutcomes(q) : q \in {r \in Arrangements(S, n) : Distinct(r)}}

\* The directories holding at most n of the names, listed in sorted order.
DirListingsOver(names, n) ==
  UNION {WithOutcomes(SelectSeq(names, LAMBDA x : x \in S)) :
           S \in {T \in SUBSET {names[i] : i \in 1..Len(names)} :
                    Cardinality(T) <= n}}

AssetMaps == AssetMapsOver(AssetNames, 2)
DirListings == DirListingsOver(DirNames, 2)

OneAssetMaps == AssetMapsOver({"a.1.js"}, 1)
OneFileDirs == DirListingsOver(<<"a.1.js">>, 1)

PullRequest ==
  [NODE_ENV |-> "production", ci |-> TRUE, event |-> "pull_request", branch |-> "topic"]

Environments ==
  {[NODE_ENV |-> "production", ci |-> TRUE, event |-> "push", branch |-> "master"],
   PullRequest,
   [NODE_ENV |-> "test", ci |-> FALSE, event |-> "", branch |-> ""]}

\* The options that decide which files are tracked and how they are named,
\* with the hooks and the publishing all absent or all present.
ScanOptions ==
  {o \in [pattern : {"", NegatedPattern},
          exclude : {"", HashTwoPattern},
          stripHash : {"", "stripDigits"},
          writeFile : {TRUE},
          publish : BOOLEAN,
          mode : {""},
          decorateItem : BOOLEAN,
          decorateAfter : BOOLEAN,
          save : BOOLEAN] :
     /\ o.decorateItem = o.publish
     /\ o.decorateAfter = o.publish
     /\ o.save = o.publish}

\* The options that decide whether and where the history is written.
SaveOptions ==
  [pattern : {""},
   exclude : {""},
   stripHash : {""},
   writeFile : BOOLEAN,
   publish : BOOLEAN,
   mode : {"", "production", "development"},
   decorateItem : {FALSE},
   decorateAfter : {FALSE},
   save : {FALSE}]

DefaultOptions ==
  [pattern |-> "", exclude |-> "", stripHash |-> "", writeFile |-> TRUE,
   publish |-> FALSE, mode |-> "", decorateItem |-> FALSE,
   decorateAfter |-> FALSE, save |-> FALSE]

NoCall ==
  /\ pc = [p \in Procs |-> "idle"]
  /\ assets = [p \in Procs |-> <<>>]
  /\ outDir = [p \in Procs |-> <<>>]
  /\ fileBefore = [p \in Procs |-> <<>>]
  /\ sizesBefore = [p \in Procs |-> <<>>]
  /\ finalSizes = [p \in Procs |-> <<>>]
  /\ items = [p \in Procs |-> <<>>]
  /\ stats = [p \in Procs |-> <<>>]
  /\ data = [p \in Procs |-> <<>>]
  /\ calls = [p \in Procs |-> {}]
  /\ posted = [p \in Procs |-> {}]
  /\ result = [p \in Procs |-> "pending"]

NoDelta ==
  /\ delta = 0
  /\ shown = [style |-> deltaStyle(0), bold |-> sizeBold(0)]

\* ---------------------------------------------------------------- actions
\* outputSizes(assets, outputPath) is called; outputPath holds one of dirs
Begin(p, dirs) ==
  /\ pc[p] = "idle"
  /\ Len(file) + Cardinality({q \in Procs : pc[q] # "idle"}) < MaxHistory
  /\ \E d \in (IF file = <<>> THEN dirs ELSE {<<>>}) :
       outDir' = [outDir EXCEPT ![p] = d]
  /\ fileBefore' = [fileBefore EXCEPT ![p] = file]
  /\ pc' = [pc EXCEPT ![p] = "load"]
  /\ UNCHANGED <<opt, env, file, assets, sizesBefore, finalSizes, items, stats,
                 data, calls, posted, result>>

\* const sizesBefore = await load(outputPath)
Load(p) ==
  /\ pc[p] = "load"
  /\ sizesBefore' = [sizesBefore EXCEPT ![p] = load(opt, file, outDir[p])]
  /\ pc' = [pc EXCEPT ![p] = "scan"]
  /\ UNCHANGED <<opt, env, file, assets, outDir, fileBefore, finalSizes, items,
                 stats, data, calls, posted, result>>

\* await Promise.all(assetNames.map(...)) rejects, and so does the call
ScanFails(p, maps) ==
  /\ pc[p] = "scan"
  /\ \E a \in maps :
       /\ scanRejects(opt, a)
       /\ assets' = [assets EXCEPT ![p] = a]
  /\ result' = [result EXCEPT ![p] = "rejected"]
  /\ pc' = [pc EXCEPT ![p] = "done"]
  /\ UNCHANGED <<opt, env, file, outDir, fileBefore, sizesBefore, finalSizes,
                 items, stats, data, calls, posted>>

\* the sizes resolve: the report is built, the hooks run, and save(items) runs
\* up to the condition of writeToDisk
Scan(p, maps, times) ==
  /\ pc[p] = "scan"
  /\ \E a \in maps, now \in times :
       LET after == finalSizesOf(opt, a)
           its == itemsOf(sizesBefore[p], after)
           st == statsOf(its, now)
       IN /\ ~scanRejects(opt, a)
          /\ assets' = [assets EXCEPT ![p] = a]
          /\ finalSizes' = [finalSizes EXCEPT ![p] = after]
          /\ items' = [items EXCEPT ![p] = its]
          /\ stats' = [stats EXCEPT ![p] = <<st>>]
          /\ calls' = [calls EXCEPT ![p] =
               (IF opt.decorateItem /\ its # <<>> THEN {"decorateItem"} ELSE {})
               \cup (IF opt.decorateAfter THEN {"decorateAfter"} ELSE {})
               \cup (IF opt.publish THEN {"publishDiff"} ELSE {})
               \cup (IF opt.save THEN {"save"} ELSE {})]
          /\ posted' = [posted EXCEPT ![p] =
               IF opt.publish /\ publishDiff(env) THEN {"diff"} ELSE {}]
          /\ IF gate(opt, st)
               THEN /\ pc' = [pc EXCEPT ![p] = "read"]
                    /\ UNCHANGED result
               ELSE /\ pc' = [pc EXCEPT ![p] = "done"]
                    /\ result' = [result EXCEPT ![p] = "resolved"]
  /\ UNCHANGED <<opt, env, file, outDir, fileBefore, sizesBefore, data>>

\* writeToDisk: const data = await readFromDisk(filename); data.unshift(stats)
Read(p) ==
  /\ pc[p] = "read"
  /\ data' = [data EXCEPT ![p] = unshift(readFromDisk(file), stats[p][1])]
  /\ pc' = [pc EXCEPT ![p] = "write"]
  /\ UNCHANGED <<opt, env, file, assets, outDir, fileBefore, sizesBefore,
                 finalSizes, items, stats, calls, posted, result>>

\* writeToDisk: fs.writeJSON(filename, data) and publishSizes(data, ...)
Write(p) ==
  /\ pc[p] = "write"
  /\ file' = IF opt.writeFile THEN writeJSON(file, data[p]) ELSE file
  /\ calls' = [calls EXCEPT ![p] =
       @ \cup (IF opt.publish THEN {"publishSizes"} ELSE {})]
  /\ posted' = [posted EXCEPT ![p] =
       @ \cup (IF opt.publish /\ publishSizes(env) THEN {"size"} ELSE {})]
  /\ result' = [result EXCEPT ![p] = "resolved"]
  /\ pc' = [pc EXCEPT ![p] = "done"]
  /\ UNCHANGED <<opt, env, assets, outDir, fileBefore, sizesBefore, finalSizes,
                 items, stats, data>>

\* the caller has the result; the call's locals are gone
Return(p) ==
  /\ pc[p] = "done"
  /\ pc' = [pc EXCEPT ![p] = "idle"]
  /\ assets' = [assets EXCEPT ![p] = <<>>]
  /\ outDir' = [outDir EXCEPT ![p] = <<>>]
  /\ fileBefore' = [fileBefore EXCEPT ![p] = <<>>]
  /\ sizesBefore' = [sizesBefore EXCEPT ![p] = <<>>]
  /\ finalSizes' = [finalSizes EXCEPT ![p] = <<>>]
  /\ items' = [items EXCEPT ![p] = <<>>]
  /\ stats' = [stats EXCEPT ![p] = <<>>]
  /\ data' = [data EXCEPT ![p] = <<>>]
  /\ calls' = [calls EXCEPT ![p] = {}]
  /\ posted' = [posted EXCEPT ![p] = {}]
  /\ result' = [result EXCEPT ![p] = "pending"]
  /\ UNCHANGED <<opt, env, file>>

\* the loop body of outputSizes formats one delta
Format ==
  /\ \E d \in (0 - MaxDelta)..MaxDelta :
       /\ delta' = d
       /\ shown' = [style |-> deltaStyle(d), bold |-> sizeBold(d)]
  /\ UNCHANGED callVars

\* --------------------------------------------------------- specifications
\* The first build: there is no history yet, the baseline is the output
\* directory, and every tracking option is tried.
Init ==
  /\ env = PullRequest
  /\ opt \in {Core(o, env) : o \in ScanOptions}
  /\ file = <<>>
  /\ NoCall
  /\ NoDelta

Next ==
  /\ \/ file = <<>> /\ Begin("p1", DirListings)
     \/ Load("p1")
     \/ ScanFails("p1", AssetMaps)
     \/ Scan("p1", AssetMaps, {1})
     \/ Read("p1")
     \/ Write("p1")
     \/ Return("p1")
  /\ UNCHANGED <<delta, shown>>

Spec == Init /\ [][Next]_vars

\* Build after build, one call at a time, of a project with one tracked file,
\* under every option and environment that decides the saving.
InitHistory ==
  /\ env \in Environments
  /\ opt \in {Core(o, env) : o \in SaveOptions}
  /\ file = <<>>
  /\ NoCall
  /\ NoDelta

NextHistory ==
  /\ \/ Begin("p1", OneFileDirs)
     \/ Load("p1")
     \/ ScanFails("p1", OneAssetMaps)
     \/ Scan("p1", OneAssetMaps, 1..MaxTime)
     \/ Read("p1")
     \/ Write("p1")
     \/ Return("p1")
  /\ UNCHANGED <<delta, shown>>

SpecHistory == InitHistory /\ [][NextHistory]_vars

\* Two builds of the same project, each calling outputSizes once, at once.
InitRace ==
  /\ env = PullRequest
  /\ opt = Core(DefaultOptions, env)
  /\ file = <<>>
  /\ NoCall
  /\ NoDelta

NextRace ==
  /\ \E p \in Procs :
       \/ Begin(p, OneFileDirs)
       \/ Load(p)
       \/ ScanFails(p, OneAssetMaps)
       \/ Scan(p, OneAssetMaps, 1..MaxTime)
       \/ Read(p)
       \/ Write(p)
  /\ UNCHANGED <<delta, shown>>

SpecRace == InitRace /\ [][NextRace]_vars

\* The formatting of a delta, for every delta up to MaxDelta either way.
InitDelta ==
  /\ env = PullRequest
  /\ opt = Core(DefaultOptions, env)
  /\ file = <<>>
  /\ NoCall
  /\ NoDelta

NextDelta == Format

SpecDelta == InitDelta /\ [][NextDelta]_vars

\* ----------------------------------------------------------------- claims
Scanned(p) == stats[p] # <<>>

Loaded(p) == pc[p] \in {"scan", "read", "write", "done"}

SomeDelta(p) == \E i \in 1..Len(items[p]) : items[p][i].delta # 0

SortedDesc(history) ==
  \A i, j \in 1..Len(history) :
    i < j => history[i].timestamp >= history[j].timestamp

\* how many times the snapshot occurs in the history
Count(history, snapshot) ==
  Cardinality({i \in 1..Len(history) : history[i] = snapshot})

\* C1: a call whose mode is not "production", or whose records all have
\* delta 0, leaves size-plugin.json as it found it and hands no history to
\* the size store.
C1_NoWriteUnlessGate ==
  \A p \in Procs :
    (pc[p] = "done" /\ (opt.mode # "production" \/ ~SomeDelta(p)))
      => /\ file = fileBefore[p]
         /\ data[p] = <<>>
         /\ "publishSizes" \notin calls[p]
         /\ "size" \notin posted[p]

C1_Witness ==
  /\ pc["p1"] = "done"
  /\ result["p1"] = "resolved"
  /\ opt.mode = "production"
  /\ opt.writeFile
  /\ items["p1"] # <<>>
  /\ ~SomeDelta("p1")
  /\ fileBefore["p1"] # <<>>

\* C2 as stated: a call in mode "production" with a nonzero delta writes the
\* history, with its snapshot first, every stored snapshot kept, and the
\* whole sorted by timestamp descending.
C2_WritesSorted ==
  \A p \in Procs :
    (pc[p] = "done" /\ opt.mode = "production" /\ SomeDelta(p))
      => /\ file # <<>>
         /\ file[1] = stats[p][1]
         /\ \A i \in 1..Len(fileBefore[p]) :
              Count(file, fileBefore[p][i]) >= Count(fileBefore[p], fileBefore[p][i])
         /\ SortedDesc(file)

\* C2 amended: such a call rewrites the file only when writeFile is set, and
\* with it unset leaves the file alone; the written history is the call's
\* snapshot followed by the stored snapshots, these sorted by timestamp
\* descending, so the whole is sorted when the call's timestamp is not below
\* a stored one. The same history is what publishSizes is given.
C2_WritesWhenEnabled ==
  \A p \in Procs :
    (pc[p] = "done" /\ opt.mode = "production" /\ SomeDelta(p))
      => /\ data[p] # <<>>
         /\ data[p][1] = stats[p][1]
         /\ Len(data[p]) = Len(fileBefore[p]) + 1
         /\ \A i \in 1..Len(data[p]) :
              Count(data[p], data[p][i]) =
                Count(fileBefore[p], data[p][i])
                  + (IF data[p][i] = stats[p][1] THEN 1 ELSE 0)
         /\ SortedDesc(Tail(data[p]))
         /\ (\A i \in 1..Len(fileBefore[p]) :
               stats[p][1].timestamp >= fileBefore[p][i].timestamp)
              => SortedDesc(data[p])
         /\ file = (IF opt.writeFile THEN data[p] ELSE fileBefore[p])
         /\ ("publishSizes" \in calls[p]) = opt.publish

C2_Witness ==
  /\ pc["p1"] = "done"
  /\ opt.mode = "production"
  /\ opt.writeFile
  /\ SomeDelta("p1")
  /\ Len(fileBefore["p1"]) = 2
  /\ ~SortedDesc(fileBefore["p1"])
  /\ stats["p1"][1].timestamp >= fileBefore["p1"][2].timestamp
  /\ Len(file) = 3

\* the most recent snapshot of a history: the first of those with the
\* greatest timestamp
Latest(history) ==
  history[CHOOSE i \in 1..Len(history) :
    /\ \A j \in 1..Len(history) : history[j].timestamp <= history[i].timestamp
    /\ \A j \in 1..(i - 1) : history[j].timestamp < history[i].timestamp]

\* C5: with a history, the baseline holds exactly the files of the most
\* recent snapshot whose size is not 0, each with that size, and a file
\* stored with size 0 has a record only if the current build holds it.
C5_BaselineFromLatest ==
  \A p \in Procs :
    (Loaded(p) /\ fileBefore[p] # <<>>)
      => LET files == Latest(fileBefore[p]).files
         IN /\ KeySet(sizesBefore[p]) =
                 {files[i].filename : i \in {j \in 1..Len(files) : files[j].size # 0}}
            /\ \A i \in 1..Len(files) :
                 files[i].size # 0 =>
                   Get(sizesBefore[p], files[i].filename) = Num(files[i].size)
            /\ \A i \in 1..Len(files), k \in 1..Len(items[p]) :
                 (files[i].size = 0 /\ items[p][k].name = files[i].filename)
                   => Has(finalSizes[p], files[i].filename)

C5_Witness ==
  /\ pc["p1"] = "done"
  /\ result["p1"] = "resolved"
  /\ Len(fileBefore["p1"]) = 2
  /\ fileBefore["p1"][1].timestamp < fileBefore["p1"][2].timestamp
  /\ \E i \in 1..Len(fileBefore["p1"][2].files) :
       fileBefore["p1"][2].files[i].size = 0
  /\ \E i \in 1..Len(fileBefore["p1"][1].files) :
       fileBefore["p1"][1].files[i].size # 0
  /\ sizesBefore["p1"] = <<>>
  /\ items["p1"] = <<>>

Names(its) == [i \in 1..Len(its) |-> its[i].name]

\* C3: the records' names are the keys of the baseline in their order, then
\* the keys found only in the current build in their order: the union of
\* both key sets, each key once.
C3_UnionInOrder ==
  \A p \in Procs :
    Scanned(p)
      => /\ Names(items[p]) =
              Keys(sizesBefore[p])
                \o SelectSeq(Keys(finalSizes[p]),
                             LAMBDA k : k \notin KeySet(sizesBefore[p]))
         /\ {items[p][i].name : i \in 1..Len(items[p])} =
              KeySet(sizesBefore[p]) \cup KeySet(finalSizes[p])
         /\ Distinct(Names(items[p]))

C3_Witness ==
  /\ pc["p1"] = "done"
  /\ Len(sizesBefore["p1"]) = 2
  /\ Len(finalSizes["p1"]) = 2
  /\ Len(items["p1"]) = 3
  /\ finalSizes["p1"][2].k = sizesBefore["p1"][2].k

\* the number a map holds for the key, 0 when it holds none
Recorded(m, key) ==
  IF \E i \in 1..Len(m) : m[i].k = key /\ m[i].v.t = "number"
    THEN (CHOOSE e \in {m[i] : i \in 1..Len(m)} : e.k = key).v.v
    ELSE 0

\* C4: a record's previous size is the baseline's number for its name, or
\* 0; its current size is the current build's, or 0; its delta is the current
\* size less the previous one; and the snapshot stores these same numbers.
C4_SizesAndDelta ==
  \A p \in Procs :
    Scanned(p)
      => /\ \A i \in 1..Len(items[p]) :
              /\ items[p][i].sizeBefore = Recorded(sizesBefore[p], items[p][i].name)
              /\ items[p][i].size = Recorded(finalSizes[p], items[p][i].name)
              /\ items[p][i].delta = items[p][i].size - items[p][i].sizeBefore
         /\ Len(stats[p][1].files) = Len(items[p])
         /\ \A i \in 1..Len(items[p]) :
              /\ stats[p][1].files[i].filename = items[p][i].name
              /\ stats[p][1].files[i].previous = items[p][i].sizeBefore
              /\ stats[p][1].files[i].size = items[p][i].size
              /\ stats[p][1].files[i].diff =
                   stats[p][1].files[i].size - stats[p][1].files[i].previous
         /\ (pc[p] = "done" /\ file # <<>>) => file[1] = stats[p][1]

C4_Witness ==
  /\ pc["p1"] = "done"
  /\ file # <<>>
  /\ \E i \in 1..Len(file[1].files) :
       /\ file[1].files[i].size = 0
       /\ file[1].files[i].previous > 0
       /\ file[1].files[i].diff = 0 - file[1].files[i].previous
  /\ \E i \in 1..Len(file[1].files) :
       /\ file[1].files[i].previous = 0
       /\ file[1].files[i].size > 0

\* whether the call's assets hold a tracked file whose size computation fails
FailingTracked(p) ==
  \E i \in 1..Len(assets[p]) :
    /\ ~assets[p][i].ok
    /\ minimatch(assets[p][i].name, opt.pattern, FALSE)
    /\ ~(opt.exclude # "" /\ minimatch(assets[p][i].name, opt.exclude, FALSE))

\* C7: a call one of whose tracked assets fails to be measured is rejected:
\* no report, no hook, no publishing, and the history file as it was.
C7_FailureRejects ==
  \A p \in Procs :
    FailingTracked(p)
      => /\ pc[p] = "done"
         /\ result[p] = "rejected"
         /\ items[p] = <<>>
         /\ stats[p] = <<>>
         /\ calls[p] = {}
         /\ posted[p] = {}
         /\ file = fileBefore[p]

C7_Witness ==
  /\ pc["p1"] = "done"
  /\ result["p1"] = "rejected"
  /\ opt.publish /\ opt.save /\ opt.decorateItem /\ opt.decorateAfter
  /\ sizesBefore["p1"] # <<>>
  /\ Len(assets["p1"]) = 2
  /\ assets["p1"][1].ok
  /\ minimatch(assets["p1"][1].name, opt.pattern, FALSE)
  /\ ~assets["p1"][2].ok

\* the files glob returns for the call's output directory
Enumerated(p) == globNames(opt.pattern, outDir[p], opt.exclude)

\* whether names[i] is the last of the names with its normalized name
LastOfKey(names, i) ==
  \A j \in (i + 1)..Len(names) : stripHash(opt, names[j]) # stripHash(opt, names[i])

\* C8: in the baseline scanned from the output directory, the normalized
\* name of every enumerated file is mapped to that file's own compressed size,
\* or to null when measuring that file failed.
C8_DiskScanAligned ==
  \A p \in Procs :
    (Loaded(p) /\ fileBefore[p] = <<>>)
      => LET files == Enumerated(p)
         IN \A i \in 1..Len(files) :
              LastOfKey(files, i)
                => Get(sizesBefore[p], stripHash(opt, files[i]))
                     = SizeOf(Entry(outDir[p], files[i]))

\* C9: a key that several raw names normalize to is in the map once, with
\* the size of the last of them, in the map of the current assets and in the
\* baseline scanned from the output directory.
C9_LastCollidingWins ==
  \A p \in Procs :
    /\ Scanned(p)
         => LET names == assetNamesOf(opt, assets[p])
            IN /\ Distinct(Keys(finalSizes[p]))
               /\ \A i, j \in 1..Len(names) :
                    (i < j /\ stripHash(opt, names[i]) = stripHash(opt, names[j])
                       /\ LastOfKey(names, j))
                      => Get(finalSizes[p], stripHash(opt, names[j]))
                           = SizeOf(Entry(assets[p], names[j]))
    /\ (Loaded(p) /\ fileBefore[p] = <<>>)
         => LET files == Enumerated(p)
            IN /\ Distinct(Keys(sizesBefore[p]))
               /\ \A i, j \in 1..Len(files) :
                    (i < j /\ stripHash(opt, files[i]) = stripHash(opt, files[j])
                       /\ LastOfKey(files, j))
                      => Get(sizesBefore[p], stripHash(opt, files[j]))
                           = SizeOf(Entry(outDir[p], files[j]))

\* C6: a delta of 0, 1 or -1 is not shown; one above 1024 is shown red beside
\* a bold size; one below -10 is shown green; any other is shown plain.
C6_DeltaAnnotation ==
  /\ (delta \in {-1, 0, 1}) => (shown.style = "none" /\ ~shown.bold)
  /\ delta > 1024 => (shown.style = "red" /\ shown.bold)
  /\ delta < -10 => (shown.style = "green" /\ ~shown.bold)
  /\ (delta >= -10 /\ delta <= 1024 /\ delta \notin {-1, 0, 1})
       => (shown.style = "plain" /\ ~shown.bold)

C6_Witness == delta = 1025 /\ shown.style = "red" /\ shown.bold

\* whether both calls passed the condition of writeToDisk and wrote
BothWrote ==
  \A p \in Procs : pc[p] = "done" /\ result[p] = "resolved" /\ data[p] # <<>>

\* C10: of two calls that both write, starting without a history, the file
\* ends with one snapshot, that of the last writer, exactly when each read
\* the file before the other wrote it; when one read after the other wrote,
\* the file ends with the snapshots of both.
C10_LostUpdate ==
  BothWrote
    => IF \A p \in Procs : Len(data[p]) = 1
         THEN Len(file) = 1 /\ \E p \in Procs : file = <<stats[p][1]>>
         ELSE /\ Len(file) = 2
              /\ \E p, q \in Procs :
                   p # q /\ file = <<stats[p][1], stats[q][1]>>

C10_Witness ==
  /\ BothWrote
  /\ \A p \in Procs : Len(data[p]) = 1
  /\ stats["p1"][1] # stats["p2"][1]
  /\ file = <<stats["p2"][1]>>

====
